---- MODULE Spec2Model ----
(***************************************************************************)
(* A model of the RustyInterpreter pipeline: the scanner (scanner.rs),     *)
(* the recursive-descent parser (parser.rs), the value and AST model       *)
(* (grammar.rs) and the tree-walking interpreter (interpreter.rs).         *)
(*                                                                         *)
(* Text (source, lexemes, string values, printed lines) is a sequence of   *)
(* one-character strings.  A number is an exact rational num/den, which    *)
(* agrees with the f64 of the code on the decimal literals and the sums,   *)
(* differences and products the bounded inputs produce.                    *)
(***************************************************************************)
EXTENDS Integers, Sequences, FiniteSets, TLC

VARIABLES
    mode,        \* the command of main.rs this behaviour runs
    \* Scanner (scanner.rs: struct Scanner)
    source,      \* the input text handed to Scanner::new
    chars,       \* Peekable<Chars>: the characters not yet consumed
    current,     \* the lexeme being built
    tokens,      \* Vec<Token>
    line_num,
    error,       \* pub error: bool
    stderr,      \* the diagnostics written with eprintln!
    scan_pc,     \* "scanning" | "done" | "panicked" | "idle"
    \* Parser (parser.rs), expression mode
    presult,     \* the result of Parser::expression on tokens
    parse_pc,    \* "ready" | "done" | "idle"
    \* Interpreter (interpreter.rs: struct Interpreter)
    environment, \* HashMap<String, Literal>
    frames,      \* the active execute_block calls, innermost last
    stdout,      \* the lines written with println!
    run_pc,      \* "running" | "error" | "idle"
    last,        \* the last step of the interpreter: what ran and its outcome
    steps        \* the number of statements executed or entered so far

scanVars == <<source, chars, current, tokens, line_num, error, stderr, scan_pc>>
parseVars == <<presult, parse_pc>>
runVars == <<environment, frames, stdout, run_pc, last, steps>>
vars == <<mode, scanVars, parseVars, runVars>>

----------------------------------------------------------------------------
(* Bounds *)

MaxSourceLen == 4
MaxExprLen == 5
MaxDepth == 2
MaxSteps == 5
MaxProgramLen == 4

----------------------------------------------------------------------------
(* Text helpers *)

Last(s) == s[Len(s)]

Digits == <<"0", "1", "2", "3", "4", "5", "6", "7", "8", "9">>

\* char::is_ascii_digit
IsAsciiDigit(c) == \E i \in 1..10 : Digits[i] = c

DigitValue(c) == (CHOOSE i \in 1..10 : Digits[i] = c) - 1

\* char::is_alphabetic, on the letters the model's inputs use
IsAlphabetic(c) ==
    c \in {"a", "b", "c", "d", "e", "f", "g", "h", "i", "j", "k", "l", "m",
           "n", "o", "p", "q", "r", "s", "t", "u", "v", "w", "x", "y", "z"}

\* char::is_alphanumeric
IsAlphanumeric(c) == IsAlphabetic(c) \/ IsAsciiDigit(c)

RECURSIVE Pow10(_)
Pow10(n) == IF n <= 0 THEN 1 ELSE 10 * Pow10(n - 1)

Abs(i) == IF i < 0 THEN -i ELSE i

RECURSIVE GCD(_, _)
GCD(a, b) == IF b = 0 THEN a ELSE GCD(b, a % b)

----------------------------------------------------------------------------
(* grammar.rs: Literal *)

NoText == <<>>

LNumber(n, d) == [kind |-> "Number", num |-> n, den |-> d, str |-> NoText, bool |-> FALSE]
LString(s) == [kind |-> "String", num |-> 0, den |-> 1, str |-> s, bool |-> FALSE]
LBoolean(b) == [kind |-> "Boolean", num |-> 0, den |-> 1, str |-> NoText, bool |-> b]
LNil == [kind |-> "Nil", num |-> 0, den |-> 1, str |-> NoText, bool |-> FALSE]
\* Option<Literal>::None
LNone == [kind |-> "None", num |-> 0, den |-> 1, str |-> NoText, bool |-> FALSE]

\* The f64 with value n/d (d > 0), in lowest terms
Number(n, d) ==
    LET g == GCD(Abs(n), d)
    IN  IF n = 0 THEN LNumber(0, 1) ELSE LNumber(n \div g, d \div g)

\* grammar.rs: TokenType::get_token_type
get_token_type(identifier) ==
    CASE identifier = <<"a", "n", "d">> -> "AND"
      [] identifier = <<"c", "l", "a", "s", "s">> -> "CLASS"
      [] identifier = <<"e", "l", "s", "e">> -> "ELSE"
      [] identifier = <<"f", "a", "l", "s", "e">> -> "FALSE"
      [] identifier = <<"f", "o", "r">> -> "FOR"
      [] identifier = <<"f", "u", "n">> -> "FUN"
      [] identifier = <<"i", "f">> -> "IF"
      [] identifier = <<"n", "i", "l">> -> "NIL"
      [] identifier = <<"o", "r">> -> "OR"
      [] identifier = <<"p", "r", "i", "n", "t">> -> "PRINT"
      [] identifier = <<"r", "e", "t", "u", "r", "n">> -> "RETURN"
      [] identifier = <<"s", "u", "p", "e", "r">> -> "SUPER"
      [] identifier = <<"t", "h", "i", "s">> -> "THIS"
      [] identifier = <<"t", "r", "u", "e">> -> "TRUE"
      [] identifier = <<"v", "a", "r">> -> "VAR"
      [] identifier = <<"w", "h", "i", "l", "e">> -> "WHILE"
      [] OTHER -> "IDENTIFIER"

\* grammar.rs: struct Token
Token(tt, lx, lit, ln) ==
    [token_type |-> tt, lexeme |-> lx, literal |-> lit, line_num |-> ln]

----------------------------------------------------------------------------
(* scanner.rs.  A scanner is the record of the struct's fields, with the   *)
(* diagnostics it has written and whether a panic has unwound it.          *)

\* Scanner::new
NewScanner(input) ==
    [chars |-> input, current |-> NoText, tokens |-> <<>>, line_num |-> 1,
     error |-> FALSE, stderr |-> <<>>, panicked |-> FALSE]

\* One eprintln! of the scanner; rest is the number of characters left
Diagnostic(s, msg) == [line |-> s.line_num, msg |-> msg, rest |-> Len(s.chars)]

\* Scanner::add_token
add_token(s, token_type, literal) ==
    [s EXCEPT !.tokens = Append(@, Token(token_type, s.current, literal, s.line_num))]

\* Scanner::handle_comparison
handle_comparison(s, c) ==
    LET single == CASE c = "=" -> "EQUAL"
                    [] c = "!" -> "BANG"
                    [] c = "<" -> "LESS"
                    [] c = ">" -> "GREATER"
        double == CASE c = "=" -> "EQUAL_EQUAL"
                    [] c = "!" -> "BANG_EQUAL"
                    [] c = "<" -> "LESS_EQUAL"
                    [] c = ">" -> "GREATER_EQUAL"
    IN  IF s.chars # <<>> /\ Head(s.chars) = "="
        THEN add_token([s EXCEPT !.current = Append(@, "="), !.chars = Tail(@)],
                       double, LNone)
        ELSE add_token(s, single, LNone)

\* Scanner::advance_next_line
RECURSIVE advance_next_line(_)
advance_next_line(s) ==
    IF s.chars = <<>> THEN s
    ELSE LET c == Head(s.chars)
             s1 == [s EXCEPT !.chars = Tail(@)]
         IN  IF c = "\n" THEN [s1 EXCEPT !.line_num = @ + 1]
             ELSE advance_next_line(s1)

\* Scanner::handle_slash
handle_slash(s) ==
    IF s.chars # <<>> /\ Head(s.chars) = "/"
    THEN advance_next_line(s)
    ELSE add_token(s, "SLASH", LNone)

\* The while-let loop of Scanner::handle_string
RECURSIVE string_loop(_)
string_loop(s) ==
    IF s.chars = <<>> THEN s
    ELSE LET c == Head(s.chars)
             s1 == [s EXCEPT !.chars = Tail(@), !.current = Append(@, c)]
         IN  IF c = "\"" THEN s1 ELSE string_loop(s1)

\* Scanner::handle_string.  current[1..len-1] panics when current is the
\* opening quote alone (the range 1..0 starts after its end).
handle_string(s) ==
    LET s1 == string_loop(s)
    IN  IF Last(s1.current) # "\""
        THEN [s1 EXCEPT !.stderr = Append(@, Diagnostic(s1, "Unterminated string.")),
                        !.error = TRUE]
        ELSE IF Len(s1.current) - 1 < 1
        THEN [s1 EXCEPT !.panicked = TRUE]
        ELSE add_token(s1, "STRING",
                       LString(SubSeq(s1.current, 2, Len(s1.current) - 1)))

\* str::parse::<f64> on digits with an optional fraction: frac counts the
\* digits read after the point, and is -1 before the point
RECURSIVE parse_digits(_, _, _, _)
parse_digits(text, i, acc, frac) ==
    IF i > Len(text) THEN Number(acc, Pow10(frac))
    ELSE IF text[i] = "." THEN parse_digits(text, i + 1, acc, 0)
    ELSE parse_digits(text, i + 1, acc * 10 + DigitValue(text[i]),
                      IF frac >= 0 THEN frac + 1 ELSE frac)

parse_f64(text) == parse_digits(text, 1, 0, -1)

\* The while-let loop of Scanner::handle_number
RECURSIVE number_loop(_, _)
number_loop(s, has_dot) ==
    IF s.chars = <<>> THEN s
    ELSE LET next_char == Head(s.chars)
             s1 == [s EXCEPT !.chars = Tail(@), !.current = Append(@, next_char)]
         IN  IF IsAsciiDigit(next_char) THEN number_loop(s1, has_dot)
             ELSE IF /\ next_char = "."
                     /\ ~has_dot
                     /\ Len(s.chars) >= 2
                     /\ IsAsciiDigit(s.chars[2])
             THEN number_loop(s1, TRUE)
             ELSE s

\* Scanner::handle_number
handle_number(s) ==
    LET s1 == number_loop(s, FALSE)
    IN  add_token(s1, "NUMBER", parse_f64(s1.current))

\* The while-let loop of Scanner::handle_identifier
RECURSIVE identifier_loop(_)
identifier_loop(s) ==
    IF s.chars = <<>> THEN s
    ELSE LET next_char == Head(s.chars)
         IN  IF IsAlphanumeric(next_char) \/ next_char = "_"
             THEN identifier_loop([s EXCEPT !.chars = Tail(@),
                                            !.current = Append(@, next_char)])
             ELSE s

\* Scanner::handle_identifier
handle_identifier(s) ==
    LET s1 == identifier_loop(s)
    IN  add_token(s1, get_token_type(s1.current), LNone)

\* unexpected_character, had it given up on the rest of the input
unexpected_character_stops(s) ==
    [s EXCEPT !.stderr = Append(@, Diagnostic(s, "Unexpected character")),
              !.error = TRUE,
              !.chars = <<>>]

\* The `_` arm of Scanner::scan_token
unexpected_character(s) ==
    [s EXCEPT !.stderr = Append(@, Diagnostic(s, "Unexpected character")),
              !.error = TRUE]

\* Scanner::scan_token
scan_token(s0) ==
    LET c == Head(s0.chars)
        s == [s0 EXCEPT !.chars = Tail(@), !.current = <<c>>]
    IN  CASE c = "(" -> add_token(s, "LEFT_PAREN", LNone)
          [] c = ")" -> add_token(s, "RIGHT_PAREN", LNone)
          [] c = "{" -> add_token(s, "LEFT_BRACE", LNone)
          [] c = "}" -> add_token(s, "RIGHT_BRACE", LNone)
          [] c = "," -> add_token(s, "COMMA", LNone)
          [] c = "." -> add_token(s, "DOT", LNone)
          [] c = "-" -> add_token(s, "MINUS", LNone)
          [] c = "+" -> add_token(s, "PLUS", LNone)
          [] c = ";" -> add_token(s, "SEMICOLON", LNone)
          [] c = "*" -> add_token(s, "STAR", LNone)
          [] c \in {"=", "!", "<", ">"} -> handle_comparison(s, c)
          [] c = "/" -> handle_slash(s)
          [] c \in {" ", "\r", "\t"} -> s
          [] c = "\n" -> [s EXCEPT !.line_num = @ + 1]
          [] c = "\"" -> handle_string(s)
          [] OTHER -> IF IsAsciiDigit(c) THEN handle_number(s)
                      ELSE IF IsAlphabetic(c) \/ c = "_" THEN handle_identifier(s)
                      ELSE unexpected_character(s)

\* push_eof, had it gone through add_token only after a first token
push_eof_after_token(s) ==
    IF s.tokens = <<>> THEN s
    ELSE [s EXCEPT !.tokens = Append(@, Token("EOF", NoText, LNone, s.line_num))]

\* The EOF push of Scanner::scan_tokens
push_eof(s) ==
    [s EXCEPT !.tokens = Append(@, Token("EOF", NoText, LNone, s.line_num))]

\* Scanner::scan_tokens, run to its end (or to the panic that unwinds it)
RECURSIVE scan_tokens(_)
scan_tokens(s) ==
    IF s.panicked THEN s
    ELSE IF s.chars # <<>> THEN scan_tokens(scan_token(s))
    ELSE push_eof(s)


----------------------------------------------------------------------------
(* grammar.rs: Expression and Statement *)

ELiteral(l) == [node |-> "Literal", value |-> l]
EGroup(e) == [node |-> "Group", expr |-> e]
EUnary(op, e) == [node |-> "Unary", op |-> op, expr |-> e]
EBinary(op, l, r) == [node |-> "Binary", op |-> op, left |-> l, right |-> r]
EVariable(name) == [node |-> "Variable", name |-> name]
EAssign(name, r) == [node |-> "Assign", name |-> name, right |-> r]
\* Option<Expression>::None, and the absent value of an Err
ENone == [node |-> "None"]

SExpression(e) == [stmt |-> "Expression", expr |-> e]
SPrint(e) == [stmt |-> "Print", expr |-> e]
SVariable(name, init) == [stmt |-> "Variable", name |-> name, init |-> init]
SBlock(statements) == [stmt |-> "Block", statements |-> statements]
SNone == [stmt |-> "None"]

----------------------------------------------------------------------------
(* parser.rs.  A parser is the record [tokens, current]; current counts    *)
(* from 0 as in the code, so the token under the cursor is                 *)
(* tokens[current + 1].  A producer returns [ok, node, p, err].  As        *)
(* history the record carries `reads`, the indices (from 0) at which       *)
(* self.tokens was indexed, and `spans`, the cursor before and after each  *)
(* statement that was parsed.                                              *)

\* Parser::new
NewParser(toks) == [tokens |-> toks, current |-> 0, reads |-> {}, spans |-> <<>>]

\* What takes the place of a token when the index is out of range: the
\* indexing panics, and nothing that follows it is behaviour of the program
NoToken == Token("", NoText, LNone, 0)

\* Parser::peek
peek(p) ==
    IF p.current + 1 \in DOMAIN p.tokens THEN p.tokens[p.current + 1] ELSE NoToken

\* Parser::previous
previous(p) ==
    IF p.current \in DOMAIN p.tokens THEN p.tokens[p.current] ELSE NoToken

\* History: the parser after a call of peek
Peeked(p) == [p EXCEPT !.reads = @ \cup {p.current}]

\* History: the parser after a call of previous
Previoused(p) == [p EXCEPT !.reads = @ \cup {p.current - 1}]

\* Parser::end
end(p) == peek(p).token_type = "EOF"

\* Parser::is_cur_match
is_cur_match(p, token_type) == ~end(p) /\ peek(p).token_type = token_type

\* Parser::advance (the parser after the call; the token returned is its
\* previous())
advance(p) ==
    IF ~end(p) THEN Previoused([Peeked(p) EXCEPT !.current = @ + 1])
    ELSE Previoused(Peeked(p))

\* Parser::match_
match_(p, token_types) ==
    LET is_match == \E t \in token_types : is_cur_match(p, t)
    IN  [matched |-> is_match, p |-> IF is_match THEN advance(p) ELSE Peeked(p)]

\* Parser::error
ParseError(token, message) ==
    [line |-> token.line_num, lexeme |-> token.lexeme, message |-> message]

NoError == [line |-> 0, lexeme |-> NoText, message |-> ""]

POk(node, p) == [ok |-> TRUE, node |-> node, p |-> p, err |-> NoError]
PErr(p, err) == [ok |-> FALSE, node |-> ENone, p |-> p, err |-> err]

\* Parser::consume (on success the token returned is previous() of .p)
consume(p, token_type, message) ==
    IF is_cur_match(p, token_type)
    THEN POk(ENone, advance(p))
    ELSE PErr(Peeked(p), ParseError(peek(p), message))

EqualityOps == {"BANG_EQUAL", "EQUAL_EQUAL"}
ComparisonOps == {"GREATER", "GREATER_EQUAL", "LESS", "LESS_EQUAL"}
TermOps == {"MINUS", "PLUS"}
FactorOps == {"SLASH", "STAR"}

RECURSIVE expression(_), comparison(_), term(_), factor(_), unary(_),
          primary(_), binary_operation(_, _, _), binary_loop(_, _, _, _),
          next_precedence(_, _)

\* The function pointer handed to binary_operation
next_precedence(which, p) ==
    CASE which = "comparison" -> comparison(p)
      [] which = "term" -> term(p)
      [] which = "factor" -> factor(p)
      [] which = "unary" -> unary(p)

\* Parser::binary_operation, line 105: the fold into the left operand, and
\* the next turn of the loop
binary_fold(right, op, left, operators, which) ==
    IF ~right.ok THEN right
    ELSE binary_loop(right.p, EBinary(op, left, right.node), operators, which)

\* binary_right, for binary_matched_right: the operator applied once
binary_right(right, op, left) ==
    IF ~right.ok THEN right
    ELSE POk(EBinary(op, left, right.node), right.p)

\* binary_matched, had it parsed the right operand at its own level
binary_matched_right(m, p, left, operators, which) ==
    IF ~m.matched THEN POk(left, m.p)
    ELSE binary_right(binary_operation(Previoused(m.p), operators, which),
                      previous(m.p), left)

\* Parser::binary_operation, lines 102-104: on a match, the operator and
\* the right operand from the next level
binary_matched(m, p, left, operators, which) ==
    IF ~m.matched THEN POk(left, m.p)
    ELSE binary_fold(next_precedence(which, Previoused(m.p)), previous(m.p), left,
                     operators, which)

\* The while loop of Parser::binary_operation
binary_loop(p, left, operators, which) ==
    binary_matched(match_(p, operators), p, left, operators, which)

\* Parser::binary_operation, after the `?` of line 101
binary_first(left, operators, which) ==
    IF ~left.ok THEN left
    ELSE binary_loop(left.p, left.node, operators, which)

\* Parser::binary_operation
binary_operation(p, operators, which) ==
    binary_first(next_precedence(which, p), operators, which)

\* Parser::expression, lines 65-71: the target must be a Variable
assignment(e, right) ==
    IF ~right.ok THEN right
    ELSE IF e.node.node = "Variable"
    THEN POk(EAssign(e.node.name, right.node), right.p)
    ELSE PErr(Previoused(right.p),
              ParseError(previous(right.p), "Invalid assignment target."))

\* Parser::expression, lines 63-64: on `=`, the right-hand side is an
\* expression
assignment_tail(e, m) ==
    IF ~m.matched THEN POk(e.node, m.p) ELSE assignment(e, expression(m.p))

\* Parser::expression, after the `?` of line 62
expression_tail(e) ==
    IF ~e.ok THEN e ELSE assignment_tail(e, match_(e.p, {"EQUAL"}))

\* Parser::expression
expression(p) == expression_tail(binary_operation(p, EqualityOps, "comparison"))

\* Parser::comparison
comparison(p) == binary_operation(p, ComparisonOps, "term")

\* term, had it matched the operators of factor as well
term_one_level(p) == binary_operation(p, TermOps \cup FactorOps, "unary")

\* Parser::term
term(p) == binary_operation(p, TermOps, "factor")

\* Parser::factor
factor(p) == binary_operation(p, FactorOps, "unary")

\* Parser::unary, lines 118-121
unary_of(op, e) == IF ~e.ok THEN e ELSE POk(EUnary(op, e.node), e.p)

\* Parser::unary, after match_
unary_matched(m, p) ==
    IF m.matched THEN unary_of(previous(m.p), unary(Previoused(m.p)))
    ELSE primary(m.p)

\* Parser::unary
unary(p) == unary_matched(match_(p, {"BANG", "MINUS"}), p)

\* Parser::primary, line 152
group_closed(e, c) == IF ~c.ok THEN c ELSE POk(EGroup(e.node), c.p)

\* Parser::primary, lines 150-151
group(e) ==
    IF ~e.ok THEN e
    ELSE group_closed(e, consume(e.p, "RIGHT_PAREN", "Expect ')' after expression."))

\* primary, had it tested for a NUMBER, STRING or IDENTIFIER with
\* is_cur_match, which leaves the cursor where it is, before previous()
primary_peeks(p) ==
    IF match_(p, {"FALSE"}).matched
    THEN POk(ELiteral(LBoolean(FALSE)), match_(p, {"FALSE"}).p)
    ELSE IF match_(p, {"TRUE"}).matched
    THEN POk(ELiteral(LBoolean(TRUE)), match_(p, {"TRUE"}).p)
    ELSE IF match_(p, {"NIL"}).matched
    THEN POk(ELiteral(LNil), match_(p, {"NIL"}).p)
    ELSE IF is_cur_match(p, "NUMBER") \/ is_cur_match(p, "STRING")
    THEN POk(ELiteral(previous(p).literal), Previoused(Peeked(p)))
    ELSE IF is_cur_match(p, "IDENTIFIER")
    THEN POk(EVariable(previous(p)), Previoused(Peeked(p)))
    ELSE IF match_(p, {"LEFT_PAREN"}).matched
    THEN group(expression(match_(p, {"LEFT_PAREN"}).p))
    ELSE PErr(Peeked(p), ParseError(peek(p), "Expect expression."))

\* Parser::primary
primary(p) ==
    IF match_(p, {"FALSE"}).matched
    THEN POk(ELiteral(LBoolean(FALSE)), match_(p, {"FALSE"}).p)
    ELSE IF match_(p, {"TRUE"}).matched
    THEN POk(ELiteral(LBoolean(TRUE)), match_(p, {"TRUE"}).p)
    ELSE IF match_(p, {"NIL"}).matched
    THEN POk(ELiteral(LNil), match_(p, {"NIL"}).p)
    ELSE IF match_(p, {"NUMBER", "STRING"}).matched
    THEN POk(ELiteral(previous(match_(p, {"NUMBER", "STRING"}).p).literal),
             Previoused(match_(p, {"NUMBER", "STRING"}).p))
    ELSE IF match_(p, {"IDENTIFIER"}).matched
    THEN POk(EVariable(previous(match_(p, {"IDENTIFIER"}).p)),
             Previoused(match_(p, {"IDENTIFIER"}).p))
    ELSE IF match_(p, {"LEFT_PAREN"}).matched
    THEN group(expression(match_(p, {"LEFT_PAREN"}).p))
    ELSE PErr(Peeked(p), ParseError(peek(p), "Expect expression."))

\* A statement producer returns [ok, stmt, p, err]
SOk(stmt, p) == [ok |-> TRUE, stmt |-> stmt, p |-> p, err |-> NoError]
SErr(r) == [ok |-> FALSE, stmt |-> SNone, p |-> r.p, err |-> r.err]

\* Parser::variable, lines 51-55
variable_end(name, init, c) ==
    IF ~c.ok THEN SErr(c) ELSE SOk(SVariable(name, init.node), c.p)

\* Parser::variable, after the initializer
variable_init(name, init) ==
    IF ~init.ok THEN SErr(init)
    ELSE variable_end(name, init,
                      consume(init.p, "SEMICOLON",
                              "Expect ';' after variable declaration."))

\* Parser::variable, lines 46-50
variable_named(name, m) ==
    variable_init(name, IF m.matched THEN expression(m.p) ELSE POk(ENone, m.p))

\* Parser::variable, after the `?` of line 44
variable_name(name) ==
    IF ~name.ok THEN SErr(name)
    ELSE variable_named(previous(name.p), match_(name.p, {"EQUAL"}))

\* Parser::variable
variable(p) == variable_name(consume(p, "IDENTIFIER", "Expect variable name."))

\* The end of a Print or Expression statement: the `;` and the statement
statement_end(stmt, c) == IF ~c.ok THEN SErr(c) ELSE SOk(stmt, c.p)

\* Parser::statement, lines 25-27
print_statement(e) ==
    IF ~e.ok THEN SErr(e)
    ELSE statement_end(SPrint(e.node),
                       consume(e.p, "SEMICOLON", "Expect ';' after value."))

\* Parser::statement, lines 36-38
expression_statement(e) ==
    IF ~e.ok THEN SErr(e)
    ELSE statement_end(SExpression(e.node),
                       consume(e.p, "SEMICOLON", "Expect ';' after expression."))

\* Parser::statement, lines 33-34
block_statement(b) ==
    IF ~b.ok THEN b
    ELSE statement_end(b.stmt, consume(b.p, "RIGHT_BRACE", "Expect '}' after block."))

RECURSIVE statement(_), block_loop(_, _)

\* History: the cursor before and after a statement that was parsed
Spanned(start, st) ==
    IF ~st.ok THEN st
    ELSE [st EXCEPT !.p.spans = Append(@, <<start, st.p.current>>)]

\* Parser::statement, line 31
block_push(statements, st) ==
    IF ~st.ok THEN st ELSE block_loop(st.p, Append(statements, st.stmt))

\* The while loop of the LEFT_BRACE branch of Parser::statement
block_loop(p, statements) ==
    IF ~is_cur_match(p, "RIGHT_BRACE") /\ ~end(p)
    THEN block_push(statements, statement(Peeked(p)))
    ELSE SOk(SBlock(statements), Peeked(p))

\* Parser::statement, the branches
statement_of(p) ==
    IF match_(p, {"VAR"}).matched THEN variable(match_(p, {"VAR"}).p)
    ELSE IF match_(p, {"PRINT"}).matched
    THEN print_statement(expression(match_(p, {"PRINT"}).p))
    ELSE IF match_(p, {"LEFT_BRACE"}).matched
    THEN block_statement(block_loop(match_(p, {"LEFT_BRACE"}).p, <<>>))
    ELSE expression_statement(expression(Peeked(p)))

\* Parser::statement
statement(p) == Spanned(p.current, statement_of(p))

RECURSIVE parse_loop(_, _)

\* Parser::parse, line 16
parse_push(statements, st) ==
    IF ~st.ok
    THEN [ok |-> FALSE, statements |-> <<>>, p |-> st.p, err |-> st.err]
    ELSE parse_loop(st.p, Append(statements, st.stmt))

\* The while loop of Parser::parse: [ok, statements, p, err]
parse_loop(p, statements) ==
    IF ~end(p) THEN parse_push(statements, statement(Peeked(p)))
    ELSE [ok |-> TRUE, statements |-> statements, p |-> Peeked(p), err |-> NoError]

\* Parser::parse
parse(p) == parse_loop(p, <<>>)

----------------------------------------------------------------------------
(* f64 arithmetic on the rationals num/den.  den = 0 encodes the values a  *)
(* division by zero produces: 1/0 is inf, -1/0 is -inf, 0/0 is NaN.  Zero  *)
(* carries no sign.                                                        *)

NaN == LNumber(0, 0)
Inf(sign) == LNumber(sign, 0)
IsNaN(x) == x.den = 0 /\ x.num = 0
IsInfinite(x) == x.den = 0 /\ x.num # 0
Sign(x) == IF x.num < 0 THEN -1 ELSE IF x.num > 0 THEN 1 ELSE 0

\* f64 negation
Neg(x) == LNumber(-x.num, x.den)

\* f64 +
Add(l, r) ==
    IF IsNaN(l) \/ IsNaN(r) THEN NaN
    ELSE IF IsInfinite(l) /\ IsInfinite(r)
    THEN IF l.num = r.num THEN l ELSE NaN
    ELSE IF IsInfinite(l) THEN l
    ELSE IF IsInfinite(r) THEN r
    ELSE Number(l.num * r.den + r.num * l.den, l.den * r.den)

\* f64 *
Mul(l, r) ==
    IF IsNaN(l) \/ IsNaN(r) THEN NaN
    ELSE IF IsInfinite(l) \/ IsInfinite(r)
    THEN IF Sign(l) * Sign(r) = 0 THEN NaN ELSE Inf(Sign(l) * Sign(r))
    ELSE Number(l.num * r.num, l.den * r.den)

\* f64 /
Div(l, r) ==
    IF IsNaN(l) \/ IsNaN(r) THEN NaN
    ELSE IF IsInfinite(r) THEN (IF IsInfinite(l) THEN NaN ELSE LNumber(0, 1))
    ELSE IF r.num = 0 THEN (IF l.num = 0 THEN NaN ELSE Inf(Sign(l)))
    ELSE IF IsInfinite(l) THEN Inf(Sign(l) * Sign(r))
    ELSE Number(Sign(r) * l.num * r.den, l.den * Abs(r.num))

\* f64 <
Less(l, r) ==
    IF IsNaN(l) \/ IsNaN(r) THEN FALSE
    ELSE IF l.den = 0 /\ r.den = 0 THEN l.num < r.num
    ELSE l.num * r.den < r.num * l.den

\* f64 ==
NumEq(l, r) == ~IsNaN(l) /\ ~IsNaN(r) /\ l = r

\* #[derive(PartialEq)] for Literal
LiteralEq(l, r) ==
    /\ l.kind = r.kind
    /\ CASE l.kind = "Number" -> NumEq(l, r)
         [] l.kind = "String" -> l.str = r.str
         [] l.kind = "Boolean" -> l.bool = r.bool
         [] OTHER -> TRUE

\* interpreter.rs: compare_number
compare_number(op, l, r) ==
    CASE op = "EQUAL_EQUAL" -> NumEq(l, r)
      [] op = "BANG_EQUAL" -> ~NumEq(l, r)
      [] op = "LESS" -> Less(l, r)
      [] op = "LESS_EQUAL" -> Less(l, r) \/ NumEq(l, r)
      [] op = "GREATER" -> Less(r, l)
      [] op = "GREATER_EQUAL" -> Less(r, l) \/ NumEq(l, r)

----------------------------------------------------------------------------
(* Text of values *)

\* The decimal digits of a natural number
RECURSIVE NatText(_)
NatText(n) ==
    IF n < 10 THEN <<Digits[n + 1]>>
    ELSE Append(NatText(n \div 10), Digits[(n % 10) + 1])

\* The digits of rem/den after the point, to the end of the expansion
RECURSIVE FractionText(_, _, _)
FractionText(rem, den, k) ==
    IF rem = 0 \/ k = 0 THEN <<>>
    ELSE <<Digits[((rem * 10) \div den) + 1]>>
         \o FractionText((rem * 10) % den, den, k - 1)

\* impl Display for f64: no point when the value is integral
DisplayF64(x) ==
    IF IsNaN(x) THEN <<"N", "a", "N">>
    ELSE IF IsInfinite(x)
    THEN (IF x.num < 0 THEN <<"-">> ELSE <<>>) \o <<"i", "n", "f">>
    ELSE LET a == Abs(x.num)
             sign == IF x.num < 0 THEN <<"-">> ELSE <<>>
             int == NatText(a \div x.den)
         IN  IF a % x.den = 0 THEN sign \o int
             ELSE sign \o int \o <<".">>
                  \o FractionText(a % x.den, x.den, 16)

\* f64::trunc
Trunc(x) ==
    IF x.den = 0 THEN x
    ELSE Number(Sign(x) * (Abs(x.num) \div x.den), 1)

\* grammar.rs: impl Display for Literal
DisplayLiteral(l) ==
    CASE l.kind = "Boolean" ->
            IF l.bool THEN <<"t", "r", "u", "e">> ELSE <<"f", "a", "l", "s", "e">>
      [] l.kind = "String" -> l.str
      [] l.kind = "Number" ->
            IF NumEq(Trunc(l), l) THEN DisplayF64(Trunc(l)) \o <<".", "0">>
            ELSE DisplayF64(l)
      [] l.kind = "Nil" -> <<"n", "i", "l">>

\* PrintText, had every value gone through Display for Literal
PrintText_display(value) == DisplayLiteral(value)

\* The text println! writes in the Print arm of Interpreter::execute
PrintText(value) ==
    IF value.kind = "Number" THEN DisplayF64(value) ELSE DisplayLiteral(value)

----------------------------------------------------------------------------
(* interpreter.rs.  The environment is a function from names to values.    *)
(* evaluate returns [ok, value, env, err, writes]: env is the environment  *)
(* the evaluation leaves behind, writes the reassignments it made.         *)

EmptyEnv == [n \in {} |-> LNil]

\* HashMap::insert
Insert(env, name, value) ==
    [n \in DOMAIN env \cup {name} |-> IF n = name THEN value ELSE env[n]]

RuntimeError(msg, name, line) == [msg |-> msg, name |-> name, line |-> line]
NoRuntimeError == RuntimeError("", NoText, 0)

VOk(value, env, writes) ==
    [ok |-> TRUE, value |-> value, env |-> env, err |-> NoRuntimeError,
     writes |-> writes]
VErr(env, err, writes) ==
    [ok |-> FALSE, value |-> LNone, env |-> env, err |-> err, writes |-> writes]

\* Interpreter::get_variable
get_variable(env, var) ==
    IF var.lexeme \in DOMAIN env
    THEN VOk(env[var.lexeme], env, <<>>)
    ELSE VErr(env, RuntimeError("Undefined variable", var.lexeme, var.line_num), <<>>)

\* reassign_variable, had it inserted without looking the name up
reassign_variable_inserts(env, var, value) ==
    VOk(value, Insert(env, var.lexeme, value),
        <<[name |-> var.lexeme, value |-> value]>>)

\* Interpreter::reassign_variable
reassign_variable(env, var, value) ==
    IF var.lexeme \in DOMAIN env
    THEN VOk(value, Insert(env, var.lexeme, value),
             <<[name |-> var.lexeme, value |-> value]>>)
    ELSE VErr(env, RuntimeError("Undefined variable", var.lexeme, var.line_num), <<>>)

\* The Unary arm of Interpreter::evaluate, on the operand's value
evaluate_unary(op, literal, env, writes) ==
    CASE op.token_type = "BANG" ->
            VOk(LBoolean(CASE literal.kind = "Boolean" -> ~literal.bool
                           [] literal.kind = "Number" -> NumEq(literal, LNumber(0, 1))
                           [] literal.kind = "String" -> literal.str = <<>>
                           [] literal.kind = "Nil" -> TRUE),
                env, writes)
      [] op.token_type = "MINUS" ->
            IF literal.kind = "Number" THEN VOk(Neg(literal), env, writes)
            ELSE VErr(env, RuntimeError("Operand must be a number.", NoText, 0), writes)

\* The Binary arm of Interpreter::evaluate, on the operands' values
evaluate_binary(op, left, right, env, writes) ==
    LET numbers == left.kind = "Number" /\ right.kind = "Number"
        must_be_numbers ==
            VErr(env, RuntimeError("Operands must be numbers.", NoText, 0), writes)
        t == op.token_type
    IN  CASE t = "STAR" ->
                IF numbers THEN VOk(Mul(left, right), env, writes) ELSE must_be_numbers
          [] t = "SLASH" ->
                IF numbers THEN VOk(Div(left, right), env, writes) ELSE must_be_numbers
          [] t = "PLUS" ->
                IF numbers THEN VOk(Add(left, right), env, writes)
                ELSE IF left.kind = "String" /\ right.kind = "String"
                THEN VOk(LString(left.str \o right.str), env, writes)
                ELSE VErr(env, RuntimeError(
                         "Operands must be two numbers or two strings.", NoText, 0),
                         writes)
          [] t = "MINUS" ->
                IF numbers THEN VOk(Add(left, Neg(right)), env, writes)
                ELSE must_be_numbers
          [] t \in {"LESS", "LESS_EQUAL", "GREATER", "GREATER_EQUAL"} ->
                IF numbers THEN VOk(LBoolean(compare_number(t, left, right)), env, writes)
                ELSE must_be_numbers
          [] t = "EQUAL_EQUAL" -> VOk(LBoolean(LiteralEq(left, right)), env, writes)
          [] t = "BANG_EQUAL" -> VOk(LBoolean(~LiteralEq(left, right)), env, writes)

\* evaluate_assign, had an assignment evaluated to nil
evaluate_assign_nil(name, value) ==
    LET r == reassign_variable(value.env, name, value.value)
    IN  IF r.ok THEN VOk(LNil, r.env, value.writes \o r.writes)
        ELSE VErr(r.env, r.err, value.writes)

\* The Assign arm of Interpreter::evaluate, on the right-hand side's result
evaluate_assign(name, value) ==
    LET r == reassign_variable(value.env, name, value.value)
    IN  IF r.ok THEN VOk(value.value, r.env, value.writes \o r.writes)
        ELSE VErr(r.env, r.err, value.writes)

\* Interpreter::evaluate
RECURSIVE evaluate(_, _)
evaluate(env, expr) ==
    CASE expr.node = "Literal" -> VOk(expr.value, env, <<>>)
      [] expr.node = "Group" -> evaluate(env, expr.expr)
      [] expr.node = "Unary" ->
            LET literal == evaluate(env, expr.expr)
            IN  IF ~literal.ok THEN literal
                ELSE evaluate_unary(expr.op, literal.value, literal.env, literal.writes)
      [] expr.node = "Binary" ->
            LET left == evaluate(env, expr.left)
            IN  IF ~left.ok THEN left
                ELSE LET right == evaluate(left.env, expr.right)
                     IN  IF ~right.ok
                         THEN VErr(right.env, right.err, left.writes \o right.writes)
                         ELSE evaluate_binary(expr.op, left.value, right.value,
                                              right.env, left.writes \o right.writes)
      [] expr.node = "Variable" -> get_variable(env, expr.name)
      [] expr.node = "Assign" ->
            LET value == evaluate(env, expr.right)
            IN  IF ~value.ok THEN value ELSE evaluate_assign(expr.name, value)


----------------------------------------------------------------------------
(* Inputs *)

\* All texts over an alphabet, up to a length
RECURSIVE TextsUpTo(_, _)
TextsUpTo(alphabet, n) ==
    IF n = 0 THEN {<<>>}
    ELSE LET shorter == TextsUpTo(alphabet, n - 1)
         IN  shorter \cup {Append(t, c) : t \in shorter, c \in alphabet}

\* tokenize: every kind of lexeme, a comment, a line break and a character
\* the scanner does not expect
ScanAlphabet == {"\"", "a", "1", ".", "/", "=", "#", " ", "\n"}
ScanSources == TextsUpTo(ScanAlphabet, MaxSourceLen)

\* parse: operators of every binary level, assignment and grouping
ExprAlphabet == {"1", "a", "+", "-", "*", "<", "=", "(", ")"}
ExprSources == TextsUpTo(ExprAlphabet, MaxExprLen)

\* run: the statements come out of the scanner and the parser
VarKw == <<"v", "a", "r", " ">>
PrintKw == <<"p", "r", "i", "n", "t", " ">>
NameTexts == {<<"a">>, <<"b">>}
NumberTexts == {<<"1">>, <<"2">>}
PrintTexts == NameTexts \cup
    {<<"3">>, <<"2", ".", "5">>, <<"\"", "s", "\"">>, <<"t", "r", "u", "e">>,
     <<"n", "i", "l">>}

VariableSources ==
    {VarKw \o n \o <<";">> : n \in NameTexts}
    \cup {VarKw \o n \o <<"=">> \o v \o <<";">> : n \in NameTexts, v \in NumberTexts}
ExpressionSources ==
    {n \o <<"=">> \o v \o <<";">> : n \in NameTexts, v \in NumberTexts}
    \cup {n \o <<"=">> \o m \o <<"=">> \o v \o <<";">> :
            n \in NameTexts, m \in NameTexts, v \in NumberTexts}
PrintSources == {PrintKw \o e \o <<";">> : e \in PrintTexts}

\* run, the parser: programs are sequences of lexemes of every kind of
\* statement
ProgramWords ==
    {<<"v", "a", "r", " ">>, <<"p", "r", "i", "n", "t", " ">>, <<"a">>, <<"1">>,
     <<"=">>, <<"+">>, <<";">>, <<"{">>, <<"}">>, <<"(">>, <<")">>}

RECURSIVE ProgramsUpTo(_)
ProgramsUpTo(n) ==
    IF n = 0 THEN {<<>>}
    ELSE LET shorter == ProgramsUpTo(n - 1)
         IN  shorter \cup {t \o w : t \in shorter, w \in ProgramWords}

ProgramSources == ProgramsUpTo(MaxProgramLen)

\* main.rs: run, up to the statements handed to Interpreter::interpret
Statements(text) ==
    LET scanned == scan_tokens(NewScanner(text))
    IN  IF scanned.panicked \/ scanned.error THEN <<>>
        ELSE parse(NewParser(scanned.tokens)).statements

StatementsOf(sources) == {Statements(text)[1] : text \in sources}

VariableStatements == StatementsOf(VariableSources)
ExpressionStatements == StatementsOf(ExpressionSources)
PrintStatements == StatementsOf(PrintSources)

----------------------------------------------------------------------------
(* tokenize and parse (main.rs) *)

ScanIdle ==
    /\ source = NoText /\ chars = NoText /\ current = NoText /\ tokens = <<>>
    /\ line_num = 1 /\ error = FALSE /\ stderr = <<>> /\ scan_pc = "idle"

ParseIdle == presult = PErr(NewParser(<<>>), NoError) /\ parse_pc = "idle"

NoFrame == [previous |-> EmptyEnv, declared |-> {}, assigned |-> EmptyEnv]

Step(event, stmt, before, result, frame) ==
    [event |-> event, stmt |-> stmt, before |-> before, result |-> result,
     frame |-> frame]

NoStep == Step("none", SNone, EmptyEnv, VErr(EmptyEnv, NoRuntimeError, <<>>), NoFrame)

RunIdle ==
    /\ environment = EmptyEnv /\ frames = <<>> /\ stdout = <<>>
    /\ run_pc = "idle" /\ last = NoStep /\ steps = 0

\* Scanner::new(input)
InitScanner(sources) ==
    /\ source \in sources
    /\ chars = source
    /\ current = NoText
    /\ tokens = <<>>
    /\ line_num = 1
    /\ error = FALSE
    /\ stderr = <<>>
    /\ scan_pc = "scanning"

\* The scanner as a record
ScannerNow ==
    [chars |-> chars, current |-> current, tokens |-> tokens,
     line_num |-> line_num, error |-> error, stderr |-> stderr,
     panicked |-> scan_pc = "panicked"]

SetScanner(s, pc) ==
    /\ chars' = s.chars
    /\ current' = s.current
    /\ tokens' = s.tokens
    /\ line_num' = s.line_num
    /\ error' = s.error
    /\ stderr' = s.stderr
    /\ scan_pc' = IF s.panicked THEN "panicked" ELSE pc

\* One turn of the while loop of Scanner::scan_tokens
ScanToken ==
    /\ scan_pc = "scanning"
    /\ chars # <<>>
    /\ SetScanner(scan_token(ScannerNow), "scanning")
    /\ UNCHANGED <<mode, source, parseVars, runVars>>

\* The end of Scanner::scan_tokens: the EOF token, and the return
ScanEnd ==
    /\ scan_pc = "scanning"
    /\ chars = <<>>
    /\ SetScanner(push_eof(ScannerNow), "done")
    /\ UNCHANGED <<mode, source, parseVars, runVars>>

\* main.rs: parse, after the scan: exit(65) on a lexical error, else
\* Parser::expression on the tokens
ParseExpression ==
    /\ mode = "parse"
    /\ scan_pc = "done"
    /\ ~error
    /\ parse_pc = "ready"
    /\ presult' = expression(NewParser(tokens))
    /\ parse_pc' = "done"
    /\ UNCHANGED <<mode, scanVars, runVars>>

InitScan == mode = "tokenize" /\ InitScanner(ScanSources) /\ ParseIdle /\ RunIdle

NextScan == ScanToken \/ ScanEnd

SpecScan == InitScan /\ [][NextScan]_vars

InitParse ==
    /\ mode = "parse"
    /\ InitScanner(ExprSources)
    /\ presult = PErr(NewParser(<<>>), NoError)
    /\ parse_pc = "ready"
    /\ RunIdle

NextParse == ScanToken \/ ScanEnd \/ ParseExpression

SpecParse == InitParse /\ [][NextParse]_vars

\* main.rs: run, after the scan: exit(65) on a lexical error, else
\* Parser::parse on the tokens.  An index out of range is a panic.
ParseProgram ==
    /\ mode = "run"
    /\ scan_pc = "done"
    /\ ~error
    /\ parse_pc = "ready"
    /\ presult' = parse(NewParser(tokens))
    /\ parse_pc' = IF presult'.p.reads \subseteq 0 .. (Len(tokens) - 1)
                   THEN "done" ELSE "panicked"
    /\ UNCHANGED <<mode, scanVars, runVars>>

\* run, from the source to the result of Parser::parse
InitProgram ==
    /\ mode = "run"
    /\ InitScanner(ProgramSources)
    /\ presult = PErr(NewParser(<<>>), NoError)
    /\ parse_pc = "ready"
    /\ RunIdle

NextProgram == ScanToken \/ ScanEnd \/ ParseProgram

SpecProgram == InitProgram /\ [][NextProgram]_vars


----------------------------------------------------------------------------
(* run (main.rs): Interpreter::interpret, one statement a step.  A frame   *)
(* is one active call of execute_block: its `previous`, and as history the *)
(* names its statements declared and the values its statements assigned to *)
(* variables of the enclosing scopes.                                      *)

Top == frames[Len(frames)]

\* History of a frame: the reassignments made by one evaluation
RECURSIVE RecordWrites(_, _)
RecordWrites(frame, writes) ==
    IF writes = <<>> THEN frame
    ELSE LET w == Head(writes)
         IN  RecordWrites(
                IF w.name \in frame.declared THEN frame
                ELSE [frame EXCEPT !.assigned = Insert(@, w.name, w.value)],
                Tail(writes))

FramesAfter(writes, declared) ==
    IF frames = <<>> THEN frames
    ELSE LET f == RecordWrites(Top, writes)
         IN  [frames EXCEPT ![Len(frames)] =
                [f EXCEPT !.declared = @ \cup declared]]

\* Abort, had interpret gone on with the next statement after an Err
Abort_resumes(event, stmt, r) ==
    /\ environment' = r.env
    /\ frames' = <<>>
    /\ run_pc' = "running"
    /\ last' = Step(event, stmt, environment, r,
                    IF frames = <<>> THEN NoFrame ELSE Top)
    /\ UNCHANGED stdout

\* `?` on an Err: every active call returns, the environment stays as it is.
\* History: the frame of the innermost block the statement was in.
Abort(event, stmt, r) ==
    /\ environment' = r.env
    /\ frames' = <<>>
    /\ run_pc' = "error"
    /\ last' = Step(event, stmt, environment, r,
                    IF frames = <<>> THEN NoFrame ELSE Top)
    /\ UNCHANGED stdout

\* Interpreter::execute, Statement::Print
ExecutePrint ==
    /\ run_pc = "running"
    /\ steps < MaxSteps
    /\ steps' = steps + 1
    /\ \E stmt \in PrintStatements :
          LET r == evaluate(environment, stmt.expr)
          IN  IF ~r.ok THEN Abort("print", stmt, r)
              ELSE /\ stdout' = Append(stdout, PrintText(r.value))
                   /\ environment' = r.env
                   /\ frames' = FramesAfter(r.writes, {})
                   /\ last' = Step("print", stmt, environment, r, NoFrame)
                   /\ UNCHANGED run_pc
    /\ UNCHANGED <<mode, scanVars, parseVars>>

\* Interpreter::execute, Statement::Expression
ExecuteExpression ==
    /\ run_pc = "running"
    /\ steps < MaxSteps
    /\ steps' = steps + 1
    /\ \E stmt \in ExpressionStatements :
          LET r == evaluate(environment, stmt.expr)
          IN  IF ~r.ok THEN Abort("expression", stmt, r)
              ELSE /\ environment' = r.env
                   /\ frames' = FramesAfter(r.writes, {})
                   /\ last' = Step("expression", stmt, environment, r, NoFrame)
                   /\ UNCHANGED <<stdout, run_pc>>
    /\ UNCHANGED <<mode, scanVars, parseVars>>

\* Interpreter::execute, Statement::Variable
ExecuteVariable ==
    /\ run_pc = "running"
    /\ steps < MaxSteps
    /\ steps' = steps + 1
    /\ \E stmt \in VariableStatements :
          LET r == IF stmt.init = ENone THEN VOk(LNil, environment, <<>>)
                   ELSE evaluate(environment, stmt.init)
          IN  IF ~r.ok THEN Abort("variable", stmt, r)
              ELSE /\ environment' = Insert(r.env, stmt.name.lexeme, r.value)
                   /\ frames' = FramesAfter(r.writes, {stmt.name.lexeme})
                   /\ last' = Step("variable", stmt, environment, r, NoFrame)
                   /\ UNCHANGED <<stdout, run_pc>>
    /\ UNCHANGED <<mode, scanVars, parseVars>>

\* Interpreter::execute_block, entry: previous = self.environment.clone()
EnterBlock ==
    /\ run_pc = "running"
    /\ steps < MaxSteps
    /\ steps' = steps + 1
    /\ Len(frames) < MaxDepth
    /\ frames' = Append(frames, [previous |-> environment, declared |-> {},
                                 assigned |-> EmptyEnv])
    /\ last' = Step("enter", SNone, environment,
                    VOk(LNone, environment, <<>>), NoFrame)
    /\ UNCHANGED <<environment, stdout, run_pc>>
    /\ UNCHANGED <<mode, scanVars, parseVars>>

\* block_end, had it kept the environment of the block
block_end_keeps(env, frame) == env

\* The environment with which execute_block returns Ok
block_end(env, frame) == frame.previous

\* History: what the block assigned to enclosing scopes was assigned in the
\* block around it too
ExitFrames ==
    LET outer == SubSeq(frames, 1, Len(frames) - 1)
    IN  IF outer = <<>> THEN outer
        ELSE [outer EXCEPT ![Len(outer)] =
                [@ EXCEPT !.assigned =
                    [n \in DOMAIN @ \cup (DOMAIN Top.assigned \ outer[Len(outer)].declared)
                        |-> IF n \in DOMAIN Top.assigned THEN Top.assigned[n] ELSE @[n]]]]

\* Interpreter::execute_block, after the last statement:
\* self.environment = previous
ExitBlock ==
    /\ run_pc = "running"
    /\ frames # <<>>
    /\ UNCHANGED steps
    /\ environment' = block_end(environment, Top)
    /\ frames' = ExitFrames
    /\ last' = Step("exit", SNone, environment,
                    VOk(LNone, environment, <<>>), Top)
    /\ UNCHANGED <<stdout, run_pc>>
    /\ UNCHANGED <<mode, scanVars, parseVars>>

\* Interpreter::new
InitRun ==
    /\ mode = "run"
    /\ ScanIdle
    /\ ParseIdle
    /\ environment = EmptyEnv
    /\ frames = <<>>
    /\ stdout = <<>>
    /\ run_pc = "running"
    /\ last = NoStep
    /\ steps = 0

NextRun ==
    \/ ExecutePrint
    \/ ExecuteExpression
    \/ ExecuteVariable
    \/ EnterBlock
    \/ ExitBlock

SpecRun == InitRun /\ [][NextRun]_vars

Init == InitScan \/ InitParse \/ InitProgram \/ InitRun

Next == NextScan \/ ParseExpression \/ ParseProgram \/ NextRun

Spec == Init /\ [][Next]_vars


----------------------------------------------------------------------------
(* Properties of the scanner *)

ScanOver == scan_pc \in {"done", "panicked"}

TokensOfType(toks, token_type) ==
    {i \in DOMAIN toks : toks[i].token_type = token_type}

\* The first index from i on at which text holds c, or 0
RECURSIVE IndexFrom(_, _, _)
IndexFrom(text, c, i) ==
    IF i > Len(text) THEN 0
    ELSE IF text[i] = c THEN i
    ELSE IndexFrom(text, c, i + 1)

\* Read from position i, outside any string or comment: does the text open
\* a string that it never closes?
RECURSIVE OpensUnclosedString(_, _)
OpensUnclosedString(text, i) ==
    IF i > Len(text) THEN FALSE
    ELSE IF text[i] = "\""
    THEN LET close == IndexFrom(text, "\"", i + 1)
         IN  IF close = 0 THEN TRUE ELSE OpensUnclosedString(text, close + 1)
    ELSE IF text[i] = "/" /\ i < Len(text) /\ text[i + 1] = "/"
    THEN LET eol == IndexFrom(text, "\n", i + 1)
         IN  IF eol = 0 THEN FALSE ELSE OpensUnclosedString(text, eol + 1)
    ELSE OpensUnclosedString(text, i + 1)

\* Read from position i, outside any string or comment: the number of
\* strings the text opens and closes
RECURSIVE ClosedStrings(_, _)
ClosedStrings(text, i) ==
    IF i > Len(text) THEN 0
    ELSE IF text[i] = "\""
    THEN LET close == IndexFrom(text, "\"", i + 1)
         IN  IF close = 0 THEN 0 ELSE 1 + ClosedStrings(text, close + 1)
    ELSE IF text[i] = "/" /\ i < Len(text) /\ text[i + 1] = "/"
    THEN LET eol == IndexFrom(text, "\n", i + 1)
         IN  IF eol = 0 THEN 0 ELSE ClosedStrings(text, eol + 1)
    ELSE ClosedStrings(text, i + 1)

\* C4: when the source opens a string with a quote and ends before the
\* closing quote (the opening quote may be its last character), the scan
\* still ends with the EOF token, the error flag is set, and the only
\* STRING tokens are those of the strings that were closed.
C4_UnterminatedStringIsLexicalError ==
    (ScanOver /\ OpensUnclosedString(source, 1)) =>
        /\ scan_pc = "done"
        /\ error
        /\ tokens # <<>>
        /\ Last(tokens).token_type = "EOF"
        /\ Cardinality(TokensOfType(tokens, "STRING")) = ClosedStrings(source, 1)

\* C5: the tokens returned by scan_tokens for a source without lexical
\* error hold exactly one EOF token, and it is the last one.
C5_ErrorFreeScanEndsInOneEOF ==
    (scan_pc = "done" /\ ~error) =>
        /\ tokens # <<>>
        /\ TokensOfType(tokens, "EOF") = {Len(tokens)}

\* An error-free scan has returned several tokens before the EOF
C5_Witness ==
    /\ scan_pc = "done"
    /\ ~error
    /\ Len(tokens) >= 3
    /\ Last(tokens).token_type = "EOF"

UnexpectedAt ==
    {Len(source) - stderr[i].rest :
        i \in {j \in DOMAIN stderr : stderr[j].msg = "Unexpected character"}}

\* The source with a space in place of each character reported as unexpected
Blanked ==
    [i \in DOMAIN source |-> IF i \in UnexpectedAt THEN " " ELSE source[i]]

\* C6: once an unexpected character has been reported the error flag is set
\* in every later state, and the scan goes on: it ends as the scan of the
\* source with a space in place of each unexpected character ends, with the
\* same tokens in the same order.
C6_UnexpectedCharacterIsSkipped ==
    /\ UnexpectedAt # {} => error
    /\ ScanOver =>
          LET clean == scan_tokens(NewScanner(Blanked))
          IN  /\ clean.tokens = tokens
              /\ clean.panicked = (scan_pc = "panicked")

\* A scan has met an unexpected character and has emitted tokens from what
\* follows it
C6_Witness ==
    /\ scan_pc = "done"
    /\ error
    /\ \E p \in UnexpectedAt :
          /\ p < Len(source)
          /\ \E i \in DOMAIN tokens :
                /\ tokens[i].token_type # "EOF"
                /\ tokens[i].lexeme = <<source[p + 1]>>
    /\ Len(tokens) >= 3


----------------------------------------------------------------------------
(* Properties of the parser *)

\* The precedence level of a binary operator, lowest first
Level(token_type) ==
    CASE token_type \in EqualityOps -> 1
      [] token_type \in ComparisonOps -> 2
      [] token_type \in TermOps -> 3
      [] token_type \in FactorOps -> 4

\* The token types an expression was read from, in source order
RECURSIVE Yield(_)
Yield(e) ==
    CASE e.node = "Literal" ->
            <<CASE e.value.kind = "Number" -> "NUMBER"
                [] e.value.kind = "String" -> "STRING"
                [] e.value.kind = "Nil" -> "NIL"
                [] e.value.kind = "Boolean" ->
                      IF e.value.bool THEN "TRUE" ELSE "FALSE">>
      [] e.node = "Group" -> <<"LEFT_PAREN">> \o Yield(e.expr) \o <<"RIGHT_PAREN">>
      [] e.node = "Unary" -> <<e.op.token_type>> \o Yield(e.expr)
      [] e.node = "Binary" -> Yield(e.left) \o <<e.op.token_type>> \o Yield(e.right)
      [] e.node = "Variable" -> <<"IDENTIFIER">>
      [] e.node = "Assign" -> <<"IDENTIFIER", "EQUAL">> \o Yield(e.right)

\* The expressions a tree contains, itself included
RECURSIVE Nodes(_)
Nodes(e) ==
    {e} \cup
    CASE e.node \in {"Group", "Unary"} -> Nodes(e.expr)
      [] e.node = "Binary" -> Nodes(e.left) \cup Nodes(e.right)
      [] e.node = "Assign" -> Nodes(e.right)
      [] OTHER -> {}

BinaryNodes(e) == {n \in Nodes(e) : n.node = "Binary"}

Parsed == parse_pc = "done" /\ presult.ok

\* The tokens Parser::expression consumed
Consumed == [i \in 1..presult.p.current |-> tokens[i].token_type]

\* C7: in a parsed expression the tree reads back as the tokens consumed,
\* and wherever a binary operator has as its operand, without parentheses,
\* a binary operator of another level, the operand's operator is of the
\* higher level: the operator that binds tighter is nested below.
C7_HigherPrecedenceNestsBelow ==
    Parsed =>
        /\ Yield(presult.node) = Consumed
        /\ \A n \in BinaryNodes(presult.node) :
              \A c \in {n.left, n.right} :
                 (c.node = "Binary" /\ Level(c.op.token_type) # Level(n.op.token_type))
                    => Level(c.op.token_type) > Level(n.op.token_type)

\* `1+1*1` has been parsed to (+ 1 (* 1 1))
C7_Witness ==
    /\ Parsed
    /\ source = <<"1", "+", "1", "*", "1">>
    /\ presult.node.node = "Binary"
    /\ presult.node.op.token_type = "PLUS"
    /\ presult.node.left.node = "Literal"
    /\ presult.node.right.node = "Binary"
    /\ presult.node.right.op.token_type = "STAR"

\* C8: in a parsed expression the tree reads back as the tokens consumed,
\* and the right operand of a binary operator is never, without
\* parentheses, a binary operator of the same level: operators of one level
\* fold to the left, x op1 y op2 z being (op2 (op1 x y) z).
C8_SameLevelFoldsLeft ==
    Parsed =>
        /\ Yield(presult.node) = Consumed
        /\ \A n \in BinaryNodes(presult.node) :
              n.right.node = "Binary"
                 => Level(n.right.op.token_type) # Level(n.op.token_type)

\* `1-1+1` has been parsed to (+ (- 1 1) 1)
C8_Witness ==
    /\ Parsed
    /\ source = <<"1", "-", "1", "+", "1">>
    /\ presult.node.node = "Binary"
    /\ presult.node.op.token_type = "PLUS"
    /\ presult.node.right.node = "Literal"
    /\ presult.node.left.node = "Binary"
    /\ presult.node.left.op.token_type = "MINUS"

----------------------------------------------------------------------------
(* Properties of the interpreter *)

\* C1: when a block ends, each variable of an enclosing scope that the
\* block assigned holds, in the enclosing scope, the value the block
\* assigned to it last.
C1_AssignmentInBlockPersists ==
    last.event = "exit" =>
        \A n \in DOMAIN last.frame.assigned :
            /\ n \in DOMAIN environment
            /\ environment[n] = last.frame.assigned[n]

\* C2: when a block ends without error, a name its statements declared is
\* absent from the store if the enclosing scope had not declared it, and
\* else holds the value it had in the enclosing scope.
C2_DeclarationInBlockDoesNotLeak ==
    last.event = "exit" =>
        \A n \in last.frame.declared :
            IF n \in DOMAIN last.frame.previous
            THEN n \in DOMAIN environment
                 /\ environment[n] = last.frame.previous[n]
            ELSE n \notin DOMAIN environment

\* A block has ended that declared a new name and had given another value
\* to a name of the enclosing scope by declaring it again
C2_Witness ==
    /\ last.event = "exit"
    /\ \E n \in last.frame.declared, m \in last.frame.declared :
          /\ n \in DOMAIN last.frame.previous
          /\ last.before[n] # last.frame.previous[n]
          /\ m \notin DOMAIN last.frame.previous

Printed == last.event = "print" /\ last.result.ok

Integral(value) ==
    value.kind = "Number" /\ value.den # 0 /\ value.num % value.den = 0

\* The text has a point with a digit after it
HasFractionDigit(text) ==
    \E i \in 1..(Len(text) - 1) : text[i] = "." /\ IsAsciiDigit(text[i + 1])

NaturalText(value) ==
    CASE value.kind = "Boolean" ->
            IF value.bool THEN <<"t", "r", "u", "e">> ELSE <<"f", "a", "l", "s", "e">>
      [] value.kind = "String" -> value.str
      [] value.kind = "Nil" -> <<"n", "i", "l">>

\* C3 as stated: a Print of an integral number writes a text with at least
\* one digit after the point; the other types are written in their natural
\* text form.
C3_IntegralPrintsFraction ==
    Printed =>
        /\ Integral(last.result.value) => HasFractionDigit(Last(stdout))
        /\ last.result.value.kind # "Number"
              => Last(stdout) = NaturalText(last.result.value)

\* C3, amended: a Print of an integral number writes the digits of the
\* integer and no point (3 is written as `3`); the other types are written
\* in their natural text form.
C3_IntegralPrintsDigitsOnly ==
    Printed =>
        /\ Integral(last.result.value) =>
              /\ \A i \in DOMAIN Last(stdout) :
                    IsAsciiDigit(Last(stdout)[i]) \/ (i = 1 /\ Last(stdout)[i] = "-")
              /\ parse_f64(Last(stdout)) = last.result.value
        /\ last.result.value.kind # "Number"
              => Last(stdout) = NaturalText(last.result.value)

\* `print 3;` has written a line
C3_Witness ==
    /\ Printed
    /\ last.stmt = Statements(PrintKw \o <<"3", ";">>)[1]
    /\ Integral(last.result.value)
    /\ Last(stdout) = <<"3">>

ChainText(n, m, v) == n \o <<"=">> \o m \o <<"=">> \o v \o <<";">>

\* The statement `n = m = v;` as the scanner and the parser hand it over
ChainStatement ==
    [n \in NameTexts, m \in NameTexts, v \in NumberTexts |->
        Statements(ChainText(n, m, v))[1]]

\* C9: the statement `n = m = v;`, executed with n and m declared, leaves
\* both holding v, assigns m before n, and its expression has the value v.
C9_ChainedAssignment ==
    \A n \in NameTexts, m \in NameTexts, v \in NumberTexts :
        ( /\ last.event = "expression"
          /\ last.stmt = ChainStatement[n, m, v]
          /\ {n, m} \subseteq DOMAIN last.before )
        => /\ run_pc = "running"
           /\ last.result.ok
           /\ environment[n] = parse_f64(v)
           /\ environment[m] = parse_f64(v)
           /\ last.result.value = parse_f64(v)
           /\ last.result.writes = <<[name |-> m, value |-> parse_f64(v)],
                                     [name |-> n, value |-> parse_f64(v)]>>

\* `a = b = 2;` has been executed with a and b declared and holding
\* other values
C9_Witness ==
    /\ last.event = "expression"
    /\ last.stmt = ChainStatement[<<"a">>, <<"b">>, <<"2">>]
    /\ {<<"a">>, <<"b">>} \subseteq DOMAIN last.before
    /\ last.before[<<"a">>] # parse_f64(<<"2">>)
    /\ last.before[<<"b">>] # parse_f64(<<"2">>)
    /\ environment[<<"a">>] = parse_f64(<<"2">>)

\* The last step was an assignment whose target was not in the store once
\* its right-hand side had been evaluated
FailedAssignment ==
    /\ last.event = "expression"
    /\ last.stmt.expr.node = "Assign"
    /\ LET rhs == evaluate(last.before, last.stmt.expr.right)
       IN  rhs.ok /\ last.stmt.expr.name.lexeme \notin DOMAIN rhs.env

\* C10: an assignment to a name that is not in the store returns the
\* undefined-variable error and leaves the store as the evaluation of its
\* right-hand side left it, the name still absent.
C10_AssignmentNeverDeclares ==
    FailedAssignment =>
        /\ run_pc = "error"
        /\ ~last.result.ok
        /\ last.result.err.msg = "Undefined variable"
        /\ last.result.err.name = last.stmt.expr.name.lexeme
        /\ environment = evaluate(last.before, last.stmt.expr.right).env
        /\ last.stmt.expr.name.lexeme \notin DOMAIN environment

\* An assignment has failed after its right-hand side changed the store
C10_Witness ==
    /\ FailedAssignment
    /\ run_pc = "error"
    /\ environment # last.before

----------------------------------------------------------------------------
(* Runtime errors *)

\* The last statement executed returned a runtime error
RuntimeErrorRaised ==
    /\ last.event \in {"print", "expression", "variable"}
    /\ ~last.result.ok

\* C11: once the execution of a statement, at top level or in a block, has
\* raised a runtime error, no later statement is executed: the store, the
\* output and the record of the last statement stay as they are.  The output
\* grows by whole lines only, one for each Print statement that succeeds, and
\* the statement that raises the error prints nothing.
C11_RuntimeErrorStopsExecution ==
    [][/\ RuntimeErrorRaised => UNCHANGED <<environment, stdout, frames, last>>
       /\ (~RuntimeErrorRaised /\ RuntimeErrorRaised') => stdout' = stdout
       /\ \/ stdout' = stdout
          \/ /\ last'.event = "print"
             /\ last'.result.ok
             /\ stdout' = Append(stdout, PrintText(last'.result.value))]_vars

\* A statement in a block has raised a runtime error after a line was printed
\* and a variable declared
C11_Witness ==
    /\ RuntimeErrorRaised
    /\ run_pc = "error"
    /\ stdout # <<>>
    /\ last.frame.previous # EmptyEnv
    /\ steps < MaxSteps

----------------------------------------------------------------------------
(* Line numbers *)

\* The number of newline characters of a text
RECURSIVE Newlines(_)
Newlines(text) ==
    IF text = <<>> THEN 0
    ELSE (IF Head(text) = "\n" THEN 1 ELSE 0) + Newlines(Tail(text))

\* C12: when the scan of a source has returned, the line number of the EOF
\* token is 1 plus the number of newline characters of the source, wherever
\* they are: between tokens, at the end of a comment or in a string.
C12_EOFLineCountsEveryNewline ==
    scan_pc = "done" =>
        /\ Last(tokens).token_type = "EOF"
        /\ Last(tokens).line_num = 1 + Newlines(source)

----------------------------------------------------------------------------
(* Parser::parse *)

\* Parser::parse has been called on the tokens of the source
ProgramParsed == mode = "run" /\ scan_pc = "done" /\ parse_pc \in {"done", "panicked"}

\* C13: on the tokens of a scan, which end with the one EOF token,
\* Parser::parse returns a statement list or the first parse error; every
\* statement that was parsed moved the cursor forward, the cursor is never
\* past the EOF token, previous() is never called with the cursor at 0, and
\* every index at which the tokens are read is in [0, len - 1].
C13_ParseStaysInBounds ==
    ProgramParsed =>
        /\ parse_pc = "done"
        /\ Last(tokens).token_type = "EOF"
        /\ presult.ok \/ presult.err.message # ""
        /\ presult.ok => peek(presult.p).token_type = "EOF"
        /\ \A i \in DOMAIN presult.p.spans :
              presult.p.spans[i][1] < presult.p.spans[i][2]
        /\ presult.p.current <= Len(tokens) - 1
        /\ -1 \notin presult.p.reads
        /\ presult.p.reads \subseteq 0 .. (Len(tokens) - 1)

\* A program with a statement in a block has been parsed to its EOF token,
\* and a token has been read with previous()
C13_Witness ==
    /\ ProgramParsed
    /\ presult.ok
    /\ Len(presult.p.spans) >= 2
    /\ \E i \in DOMAIN presult.statements :
          /\ presult.statements[i].stmt = "Block"
          /\ presult.statements[i].statements # <<>>
    /\ presult.p.reads = 0 .. (Len(tokens) - 1)


====
